---------------------------- MODULE Spec2Model ----------------------------
(***************************************************************************)
(* harbor-cli: the generate, migrate and troubleshoot commands as a state  *)
(* machine.  One invocation of one command is one behaviour: Init draws    *)
(* the command, its flags and the state of the world it reads (files on    *)
(* disk, containers known to the runtime); every action is one step of the *)
(* command's run() between two suspension points (a prompt, an external    *)
(* process, a runtime API call).  Answers of the operator and results of   *)
(* external processes and API calls are drawn with \E where they arrive.   *)
(*                                                                         *)
(* Text handed to a shell is a sequence of atoms (words and single         *)
(* metacharacters); text written to files is a sequence of lines, each its *)
(* indentation and its words.                                              *)
(***************************************************************************)
EXTENDS Naturals, Sequences, FiniteSets, TLC

VARIABLES
    cmd,            \* the command invoked
    flags,          \* its parsed flags
    disk,           \* file name -> [exists, origin, text]
    containers,     \* what docker.listContainers({all: true}) returns
    pc,             \* position in run(); "returned" and "threw" are final
    trace,          \* everything run() did so far, in order
    detectedStack,  \* Generate.run: let detectedStack
    answers,        \* Generate.run: const answers ({port, entrypoint})
    dbName,         \* Migrate.run: dbDetails.dbName
    target,         \* Troubleshoot.run: let targetContainerId
    inspect         \* Troubleshoot.run: const inspect

vars == <<cmd, flags, disk, containers, pc, trace, detectedStack, answers,
          dbName, target, inspect>>

----------------------------------------------------------------------------
(* Bounds of the model *)

MaxContainers == 2

----------------------------------------------------------------------------
(* Values *)

\* JavaScript's undefined for an optional string flag or variable
Undefined == "<undefined>"

\* JavaScript truthiness of an optional string: neither undefined nor ""
Truthy(s) == s # Undefined /\ s # ""

NoAnswers == [port |-> Undefined, entrypoint |-> Undefined]
NoInspect == [Id |-> Undefined, Name |-> Undefined, Status |-> Undefined,
              Ports |-> [isNull |-> TRUE, keys |-> {}]]

AbsentFile == [exists |-> FALSE, origin |-> "none", text |-> <<>>]
UserFile   == [exists |-> TRUE, origin |-> "user",
               text |-> <<[indent |-> 0, words |-> <<"#", "written", "by", "hand">>]>>]

ArtifactFiles == {"Dockerfile", "docker-compose.yml"}
MarkerFiles   == {"package.json", "requirements.txt", "src/index.js"}
DumpFile      == "db_dump.sql"
Files         == ArtifactFiles \cup MarkerFiles \cup {DumpFile}

\* The disks in which exactly the files of `present` exist
DiskWith(present) == [f \in Files |-> IF f \in present THEN UserFile ELSE AbsentFile]

\* One thing run() did: a log line, a prompt, an external process, a runtime
\* API call or a file write.  `ok` is FALSE for a process that exited
\* nonzero and for an API call that was rejected.
Event(kind, name, text, ok) == [kind |-> kind, name |-> name, text |-> text, ok |-> ok]
Log(name)          == Event("log", name, <<>>, TRUE)
\* A prompt and the operator's answer to it
Prompt(name, answer) == Event("prompt", name, answer, TRUE)
YesNo(b)           == <<IF b THEN "yes" ELSE "no">>
Exec(name, line, ok) == Event("exec", name, line, ok)
Api(name, ok)      == Event("api", name, <<>>, ok)

Final == {"returned", "threw"}

\* The events of the trace that satisfy a kind and a name
Has(kind, name) == \E i \in 1..Len(trace) : trace[i].kind = kind /\ trace[i].name = name
Count(kind, name) == Cardinality({i \in 1..Len(trace) : trace[i].kind = kind /\ trace[i].name = name})
HasKind(kind) == \E i \in 1..Len(trace) : trace[i].kind = kind

----------------------------------------------------------------------------
(* Migrate: src/unnamed/part_000, lines 152-294 *)

Images  == {<<"myapp:latest">>, <<"my", " ", "app">>}
\* Database names that are one shell word
DbNames == {<<"yourdb">>, <<"shop">>}
VpsValues == {Undefined, "", "user@10.0.0.1"}
DbTypes == {"postgres", "mysql", "none"}

\* Migrate.checkDockerFiles
checkDockerFilesEither(d) == d["Dockerfile"].exists \/ d["docker-compose.yml"].exists
checkDockerFiles(d) == d["Dockerfile"].exists /\ d["docker-compose.yml"].exists

\* The command line of the build, `docker buildx build ... -t ${flags.image} --push .`
BuildCommand(image) ==
    <<"docker", " ", "buildx", " ", "build", " ", "--platform", " ",
      "linux/amd64,linux/arm64", " ", "-t", " ">> \o image \o <<" ", "--push", " ", ".">>

\* Whether the Data Sync block is entered: flags.dbType !== 'none'
SyncEnabled(dbType) == dbType # "none"

\* The command line of the dump, by dbType (the if / else if of lines 242-250);
\* <<>> when neither branch runs a command
DumpCommandPgOnly(dbType, name) == <<"pg_dump", " ">> \o name \o <<" ", ">", " ", DumpFile>>
DumpCommand(dbType, name) ==
    IF dbType = "postgres" THEN <<"pg_dump", " ">> \o name \o <<" ", ">", " ", DumpFile>>
    ELSE IF dbType = "mysql" THEN <<"mysqldump", " ">> \o name \o <<" ", ">", " ", DumpFile>>
    ELSE <<>>

UpCommand == <<"docker-compose", " ", "up", " ", "-d">>

RECURSIVE AtomsText(_)
\* The string a sequence of atoms stands for
AtomsText(atoms) == IF atoms = <<>> THEN "" ELSE Head(atoms) \o AtomsText(Tail(atoms))

RECURSIVE ShellSplit(_, _, _)
\* The shell's splitting of an unquoted command line into words at spaces:
\* `word` is the word being read, if `inWord`
ShellSplit(line, word, inWord) ==
    IF line = <<>> THEN (IF inWord THEN <<word>> ELSE <<>>)
    ELSE IF Head(line) = " "
    THEN (IF inWord THEN <<word>> ELSE <<>>) \o ShellSplit(Tail(line), "", FALSE)
    ELSE ShellSplit(Tail(line), word \o Head(line), TRUE)

\* The arguments the process started by execSync(line) receives, argv[0] included
ShellWords(line) == ShellSplit(line, "", FALSE)

\* if (flags.vps): the manual-instructions branch
DeployRemoteIfDefined(vps) == vps # Undefined
DeployRemote(vps) == Truthy(vps)

\* Where run() goes when execSync throws on the build: nothing catches it
OnBuildFailureCaught == "sync"
OnBuildFailure == "threw"

\* if (buildConfirm.build): the build runs, or run() goes on to Data Sync
AfterBuildConfirmStop(build) == IF build THEN "build" ELSE "returned"
AfterBuildConfirm(build) == IF build THEN "build" ELSE "sync"

\* Where run() goes when docker.version() is rejected: nothing catches it,
\* and both deployment branches come after it
OnRuntimeUnavailableIgnored == "deploy"
OnRuntimeUnavailable == "threw"

InitMigrate ==
    /\ cmd = "migrate"
    /\ flags \in [image : Images, vps : VpsValues, dbType : DbTypes, force : BOOLEAN]
    /\ \E present \in SUBSET (ArtifactFiles \cup {DumpFile}) : disk = DiskWith(present)
    /\ containers = <<>>
    /\ pc = "start"
    /\ trace = <<>>
    /\ detectedStack = Undefined
    /\ answers = NoAnswers
    /\ dbName = <<>>
    /\ target = Undefined
    /\ inspect = NoInspect

\* lines 189-201: the start message and the check for the Docker files
MigrateStart ==
    /\ cmd = "migrate" /\ pc = "start"
    /\ IF ~checkDockerFiles(disk)
       THEN /\ trace' = trace \o <<Log("start"), Log("missing_files")>>
            /\ pc' = "returned"
       ELSE /\ trace' = Append(trace, Log("start"))
            /\ pc' = "build_confirm"
    /\ UNCHANGED <<cmd, flags, disk, containers, detectedStack, answers, dbName, target, inspect>>

\* lines 204-215: force, or the operator's answer to 'Build and push the Docker image?'
MigrateBuildConfirm ==
    /\ cmd = "migrate" /\ pc = "build_confirm"
    /\ IF flags.force
       THEN /\ trace' = trace
            /\ pc' = AfterBuildConfirm(TRUE)
       ELSE \E build \in BOOLEAN :
            /\ trace' = Append(trace, Prompt("build", YesNo(build)))
            /\ pc' = AfterBuildConfirm(build)
    /\ UNCHANGED <<cmd, flags, disk, containers, detectedStack, answers, dbName, target, inspect>>

\* lines 216-224: the build; execSync throws when the process exits nonzero
MigrateBuild ==
    /\ cmd = "migrate" /\ pc = "build"
    /\ \E ok \in BOOLEAN :
        IF ok
        THEN /\ trace' = trace \o <<Log("building"), Exec("build", BuildCommand(flags.image), TRUE),
                                    Log("build_ok")>>
             /\ pc' = "sync"
        ELSE /\ trace' = trace \o <<Log("building"), Exec("build", BuildCommand(flags.image), FALSE)>>
             /\ pc' = OnBuildFailure
    /\ UNCHANGED <<cmd, flags, disk, containers, detectedStack, answers, dbName, target, inspect>>

\* lines 228-232 and 255-257: Data Sync is entered or skipped
MigrateSync ==
    /\ cmd = "migrate" /\ pc = "sync"
    /\ IF SyncEnabled(flags.dbType)
       THEN /\ trace' = Append(trace, Log("syncing"))
            /\ pc' = "db_prompt"
       ELSE /\ trace' = Append(trace, Log("sync_skipped"))
            /\ pc' = "runtime_check"
    /\ UNCHANGED <<cmd, flags, disk, containers, detectedStack, answers, dbName, target, inspect>>

\* lines 233-240: 'Database name?'
MigrateDbPrompt ==
    /\ cmd = "migrate" /\ pc = "db_prompt"
    /\ \E n \in DbNames :
        /\ dbName' = n
        /\ trace' = Append(trace, Prompt("dbName", n))
    /\ pc' = "dump"
    /\ UNCHANGED <<cmd, flags, disk, containers, detectedStack, answers, target, inspect>>

\* lines 242-254: the dump.  The shell opens the redirection before it runs the
\* tool, so db_dump.sql is (re)written whether or not the tool succeeds.
MigrateDump ==
    /\ cmd = "migrate" /\ pc = "dump"
    /\ LET line == DumpCommand(flags.dbType, dbName) IN
       IF line = <<>>
       THEN /\ trace' = Append(trace, Log("dump_ok"))
            /\ pc' = "runtime_check"
            /\ disk' = disk
       ELSE \E ok \in BOOLEAN :
            /\ disk' = [disk EXCEPT ![DumpFile] =
                          [exists |-> TRUE, origin |-> "dump",
                           text |-> IF ok THEN <<[indent |-> 0, words |-> <<"--", "dump">>]>> ELSE <<>>]]
            /\ IF ok
               THEN /\ trace' = trace \o <<Exec("dump", line, TRUE), Log("dump_ok")>>
                    /\ pc' = "runtime_check"
               ELSE /\ trace' = Append(trace, Exec("dump", line, FALSE))
                    /\ pc' = "threw"
    /\ UNCHANGED <<cmd, flags, containers, detectedStack, answers, dbName, target, inspect>>

\* lines 260-262: await docker.version(); a rejection is not caught
MigrateRuntimeCheck ==
    /\ cmd = "migrate" /\ pc = "runtime_check"
    /\ \E ok \in BOOLEAN :
        /\ trace' = trace \o <<Log("checking_daemon"), Api("version", ok)>>
        /\ pc' = IF ok THEN "deploy" ELSE OnRuntimeUnavailable
    /\ UNCHANGED <<cmd, flags, disk, containers, detectedStack, answers, dbName, target, inspect>>

\* lines 264-284: the manual instructions for a VPS, or docker-compose up here
MigrateDeploy ==
    /\ cmd = "migrate" /\ pc = "deploy"
    /\ IF DeployRemote(flags.vps)
       THEN /\ trace' = trace \o <<Log("deploy_vps_manual"), Log("complete")>>
            /\ pc' = "returned"
       ELSE \E ok \in BOOLEAN :
            IF ok
            THEN /\ trace' = trace \o <<Log("deploy_local"), Exec("up", UpCommand, TRUE),
                                        Log("staging_running"), Log("complete")>>
                 /\ pc' = "returned"
            ELSE /\ trace' = trace \o <<Log("deploy_local"), Exec("up", UpCommand, FALSE)>>
                 /\ pc' = "threw"
    /\ UNCHANGED <<cmd, flags, disk, containers, detectedStack, answers, dbName, target, inspect>>

MigrateNext ==
    \/ MigrateStart
    \/ MigrateBuildConfirm
    \/ MigrateBuild
    \/ MigrateSync
    \/ MigrateDbPrompt
    \/ MigrateDump
    \/ MigrateRuntimeCheck
    \/ MigrateDeploy

----------------------------------------------------------------------------
(* Troubleshoot: src/unnamed/part_000, lines 300-423 *)

Statuses == {"running", "exited"}
NullPorts == [isNull |-> TRUE, keys |-> {}]
PortsValues == {NullPorts, [isNull |-> FALSE, keys |-> {}], [isNull |-> FALSE, keys |-> {"80/tcp"}]}

ContainerId(i) == IF i = 1 THEN "c1" ELSE IF i = 2 THEN "c2" ELSE IF i = 3 THEN "c3" ELSE "c4"
ContainerName(i) == IF i = 1 THEN "/web1" ELSE IF i = 2 THEN "/web2" ELSE IF i = 3 THEN "/web3" ELSE "/web4"

\* The container lists of up to MaxContainers containers, ids and names by position
ContainerLists ==
    UNION {{[i \in 1..n |-> [Id |-> ContainerId(i), Name |-> ContainerName(i),
                             Status |-> sp[i][1], Ports |-> sp[i][2]]] :
            sp \in [1..n -> Statuses \X PortsValues]} : n \in 0..MaxContainers}

ContainerFlags == {Undefined, "", "c1", "web2", "ghost"}

\* The containers the runtime resolves an id or a name to
\* (docker.getContainer(id).inspect()); names are listed with a leading slash
Resolve(id) ==
    {containers[i] : i \in {j \in 1..Len(containers) :
        containers[j].Id = id \/ containers[j].Name = "/" \o id}}

\* inspect.State.Status !== 'running'
NotRunning(status) == status # "running"

\* inspect.NetworkSettings.Ports && Object.keys(inspect.NetworkSettings.Ports).length > 0
PortsConfigured(ports) == ~ports.isNull /\ Cardinality(ports.keys) > 0

\* containers.length === 0
NoContainersNever(list) == FALSE
NoContainers(list) == Len(list) = 0

InitTroubleshoot ==
    /\ cmd = "troubleshoot"
    /\ flags \in [container : ContainerFlags]
    /\ disk = DiskWith({})
    /\ containers \in ContainerLists
    /\ pc = "start"
    /\ trace = <<>>
    /\ detectedStack = Undefined
    /\ answers = NoAnswers
    /\ dbName = <<>>
    /\ target = Undefined
    /\ inspect = NoInspect

\* lines 324-339: the start message and the container list
TroubleshootList ==
    /\ cmd = "troubleshoot" /\ pc = "start"
    /\ \E ok \in BOOLEAN :
        IF ~ok
        THEN /\ trace' = trace \o <<Log("start"), Api("listContainers", FALSE)>>
             /\ pc' = "threw"
        ELSE IF NoContainers(containers)
        THEN /\ trace' = trace \o <<Log("start"), Api("listContainers", TRUE), Log("no_containers")>>
             /\ pc' = "returned"
        ELSE /\ trace' = trace \o <<Log("start"), Api("listContainers", TRUE)>>
             /\ pc' = "select"
    /\ UNCHANGED <<cmd, flags, disk, containers, detectedStack, answers, dbName, target, inspect>>

\* lines 341-362: the flag, or the operator's choice among the listed ids
TroubleshootSelect ==
    /\ cmd = "troubleshoot" /\ pc = "select"
    /\ \E choice \in {containers[i].Id : i \in 1..Len(containers)} :
        LET prompted == ~Truthy(flags.container)
            id == IF prompted THEN choice ELSE flags.container
            asked == IF prompted THEN <<Prompt("containerId", <<choice>>)>> ELSE <<>>
        IN  /\ target' = id
            /\ IF ~Truthy(id)
               THEN /\ trace' = trace \o asked \o <<Log("no_selection")>>
                    /\ pc' = "returned"
               ELSE /\ trace' = trace \o asked
                    /\ pc' = "inspect"
    /\ UNCHANGED <<cmd, flags, disk, containers, detectedStack, answers, dbName, inspect>>

\* lines 365-380: inspect, the stats and the not-running diagnosis
TroubleshootInspect ==
    /\ cmd = "troubleshoot" /\ pc = "inspect"
    /\ \/ /\ trace' = Append(trace, Api("inspect", FALSE))
          /\ pc' = "threw"
          /\ inspect' = inspect
       \/ \E c \in Resolve(target) :
          /\ inspect' = c
          /\ trace' = trace \o <<Api("inspect", TRUE), Log("stats")>>
                            \o (IF NotRunning(c.Status) THEN <<Log("not_running")>> ELSE <<>>)
          /\ pc' = "logs_prompt"
    /\ UNCHANGED <<cmd, flags, disk, containers, detectedStack, answers, dbName, target>>

\* lines 383-392: 'View recent logs?'
TroubleshootLogsPrompt ==
    /\ cmd = "troubleshoot" /\ pc = "logs_prompt"
    /\ \E checkLogs \in BOOLEAN :
        /\ trace' = Append(trace, Prompt("checkLogs", YesNo(checkLogs)))
        /\ pc' = IF checkLogs THEN "logs" ELSE "checks"
    /\ UNCHANGED <<cmd, flags, disk, containers, detectedStack, answers, dbName, target, inspect>>

\* lines 393-402: the log tail; a rejection is not caught
TroubleshootLogs ==
    /\ cmd = "troubleshoot" /\ pc = "logs"
    /\ \E ok \in BOOLEAN :
        IF ok
        THEN /\ trace' = trace \o <<Api("logs", TRUE), Log("recent_logs")>>
             /\ pc' = "checks"
        ELSE /\ trace' = Append(trace, Api("logs", FALSE))
             /\ pc' = "threw"
    /\ UNCHANGED <<cmd, flags, disk, containers, detectedStack, answers, dbName, target, inspect>>

\* lines 405-421: the port check and the closing message
TroubleshootChecks ==
    /\ cmd = "troubleshoot" /\ pc = "checks"
    /\ trace' = trace \o <<Log("running_checks"),
                           IF PortsConfigured(inspect.Ports) THEN Log("ports_ok") ELSE Log("no_ports"),
                           Log("complete")>>
    /\ pc' = "returned"
    /\ UNCHANGED <<cmd, flags, disk, containers, detectedStack, answers, dbName, target, inspect>>

TroubleshootNext ==
    \/ TroubleshootList
    \/ TroubleshootSelect
    \/ TroubleshootInspect
    \/ TroubleshootLogsPrompt
    \/ TroubleshootLogs
    \/ TroubleshootChecks

----------------------------------------------------------------------------
(* Text of the generated files *)

\* A line of a template: its leading spaces and its words (none: a blank line)
L(indent, words) == [indent |-> indent, words |-> words]
Blank == L(0, <<>>)

RECURSIVE Join(_)
\* The words of a line, one space between two
Join(words) ==
    IF words = <<>> THEN ""
    ELSE IF Len(words) = 1 THEN words[1]
    ELSE words[1] \o " " \o Join(Tail(words))

\* The text of a line after its indentation
LineText(line) == Join(line.words)

RECURSIVE DropLeadingBlank(_)
DropLeadingBlank(lines) ==
    IF lines # <<>> /\ lines[1].words = <<>> THEN DropLeadingBlank(Tail(lines)) ELSE lines

RECURSIVE DropTrailingBlank(_)
DropTrailingBlank(lines) ==
    IF lines # <<>> /\ lines[Len(lines)].words = <<>>
    THEN DropTrailingBlank(SubSeq(lines, 1, Len(lines) - 1))
    ELSE lines

\* String.prototype.trim on a text of several lines: the blank lines at both
\* ends go, and so does the indentation of the first line left
Trim(lines) ==
    LET t == DropTrailingBlank(DropLeadingBlank(lines)) IN
    IF t = <<>> THEN t ELSE <<L(0, t[1].words)>> \o Tail(t)

\* dedent: the smallest indentation among the lines that have some and are not
\* blank is removed from every line that starts with a space; then trim
Dedent(lines) ==
    LET indents == {lines[i].indent : i \in {j \in 1..Len(lines) :
                        lines[j].indent > 0 /\ lines[j].words # <<>>}}
        strip(l) == IF indents = {} \/ l.indent = 0 THEN l
                    ELSE LET m == CHOOSE n \in indents : \A k \in indents : n <= k
                         IN  L(IF l.indent > m THEN l.indent - m ELSE 0, l.words)
    IN  Trim([i \in 1..Len(lines) |-> strip(lines[i])])

\* The build stages of a recipe: its FROM lines
Stages(lines) == {i \in 1..Len(lines) : lines[i].words # <<>> /\ lines[i].words[1] = "FROM"}

LastLine(lines) == lines[Len(lines)]

----------------------------------------------------------------------------
(* Generate with the overwrite guard: src/unnamed/part_000, lines 431-640 *)

StackFlags   == {Undefined, "node-prisma", "python", "react"}
StackChoices == {"node-prisma", "python", "react", "other"}
PortAnswers  == {"3000", "8080"}
EntrypointAnswers == {"dist/server.js", "app.py"}

\* Generate.detectStack
detectStackPythonFirst(d) ==
    IF d["requirements.txt"].exists THEN "python"
    ELSE IF d["package.json"].exists THEN "node-prisma"
    ELSE Undefined
detectStackReactFirst(d) ==
    IF d["package.json"].exists /\ d["src/index.js"].exists THEN "react"
    ELSE IF d["package.json"].exists THEN "node-prisma"
    ELSE IF d["requirements.txt"].exists THEN "python"
    ELSE Undefined
detectStack(d) ==
    IF d["package.json"].exists THEN "node-prisma"
    ELSE IF d["requirements.txt"].exists THEN "python"
    ELSE IF d["package.json"].exists /\ d["src/index.js"].exists THEN "react"
    ELSE Undefined

\* (dockerfileExists || composeExists) && !flags.force: the overwrite prompt is shown
MustConfirmBothExist(dockerfileExists, composeExists, force) ==
    (dockerfileExists /\ composeExists) /\ ~force
MustConfirm(dockerfileExists, composeExists, force) ==
    (dockerfileExists \/ composeExists) /\ ~force

\* Generate.generateDockerfileContent, the template literals as written
\* (8 spaces before each line, 6 before the closing backtick), then dedent
generateDockerfileContentAllGeneric(stack, a) ==
    Dedent(<<Blank,
             L(8, <<"#", "Default/generic", "Dockerfile", "-", "customize", "me!">>),
             L(8, <<"FROM", "alpine">>),
             L(8, <<"WORKDIR", "/app">>),
             L(8, <<"COPY", ".", ".">>),
             L(8, <<"EXPOSE", a.port>>),
             L(8, <<"CMD", "[\"echo\",", "\"Hello", "from", "generic", "app\"]">>),
             L(6, <<>>)>>)
generateDockerfileContentOneStage(stack, a) ==
    Dedent(<<Blank,
             L(8, <<"FROM", "node:20-slim">>),
             L(8, <<"WORKDIR", "/app">>),
             L(8, <<"COPY", ".", ".">>),
             L(8, <<"EXPOSE", a.port>>),
             L(8, <<"CMD", "[\"node\",", "\"" \o a.entrypoint \o "\"]">>),
             L(6, <<>>)>>)
generateDockerfileContent(stack, a) ==
    IF stack = "node-prisma" THEN
        Dedent(<<Blank,
                 L(8, <<"FROM", "node:20", "AS", "builder">>),
                 L(8, <<"WORKDIR", "/app">>),
                 L(8, <<"COPY", "package*.json", "./">>),
                 L(8, <<"RUN", "npm", "ci">>),
                 L(8, <<"COPY", ".", ".">>),
                 L(8, <<"RUN", "npx", "prisma", "generate">>),
                 L(8, <<"RUN", "npm", "run", "build">>),
                 Blank,
                 L(8, <<"FROM", "node:20-slim">>),
                 L(8, <<"WORKDIR", "/app">>),
                 L(8, <<"COPY", "--from=builder", "/app/dist", "./dist">>),
                 L(8, <<"COPY", "--from=builder", "/app/node_modules", "./node_modules">>),
                 L(8, <<"COPY", "--from=builder", "/app/prisma", "./prisma">>),
                 L(8, <<"ENV", "NODE_ENV=production">>),
                 L(8, <<"EXPOSE", a.port>>),
                 L(8, <<"CMD", "[\"node\",", "\"" \o a.entrypoint \o "\"]">>),
                 L(6, <<>>)>>)
    ELSE IF stack = "python" THEN
        Dedent(<<Blank,
                 L(8, <<"FROM", "python:3.10-slim">>),
                 L(8, <<"WORKDIR", "/app">>),
                 L(8, <<"COPY", "requirements.txt", "./">>),
                 L(8, <<"RUN", "pip", "install", "-r", "requirements.txt">>),
                 L(8, <<"COPY", ".", ".">>),
                 L(8, <<"EXPOSE", a.port>>),
                 L(8, <<"CMD", "[\"python\",", "\"" \o a.entrypoint \o "\"]">>),
                 L(6, <<>>)>>)
    ELSE IF stack = "react" THEN
        Dedent(<<Blank,
                 L(8, <<"FROM", "node:20", "AS", "builder">>),
                 L(8, <<"WORKDIR", "/app">>),
                 L(8, <<"COPY", "package*.json", "./">>),
                 L(8, <<"RUN", "npm", "ci">>),
                 L(8, <<"COPY", ".", ".">>),
                 L(8, <<"RUN", "npm", "run", "build">>),
                 Blank,
                 L(8, <<"FROM", "nginx:alpine">>),
                 L(8, <<"COPY", "--from=builder", "/app/build", "/usr/share/nginx/html">>),
                 L(8, <<"EXPOSE", a.port>>),
                 L(8, <<"CMD", "[\"nginx\",", "\"-g\",", "\"daemon", "off;\"]">>),
                 L(6, <<>>)>>)
    ELSE
        Dedent(<<Blank,
                 L(8, <<"#", "Default/generic", "Dockerfile", "-", "customize", "me!">>),
                 L(8, <<"FROM", "alpine">>),
                 L(8, <<"WORKDIR", "/app">>),
                 L(8, <<"COPY", ".", ".">>),
                 L(8, <<"EXPOSE", a.port>>),
                 L(8, <<"CMD", "[\"echo\",", "\"Hello", "from", "generic", "app\"]">>),
                 L(6, <<>>)>>)

\* Generate.generateComposeContent (6 spaces before each line of the template)
generateComposeContent(stack, a) ==
    Dedent(<<Blank,
             L(6, <<"version:", "'3.8'">>),
             L(6, <<"services:">>),
             L(8, <<"app:">>),
             L(10, <<"build:", ".">>),
             L(10, <<"ports:">>),
             L(12, <<"-", "\"" \o a.port \o ":" \o a.port \o "\"">>),
             L(10, <<"environment:">>),
             L(12, <<"-", "NODE_ENV=production", "", "#", "Adjust", "for", "your", "stack",
                     "(e.g.,", "PYTHON_ENV", "for", "Python)">>),
             L(4, <<>>)>>)

\* fs.writeFile(path, content): the file is created, or replaced when it exists
WriteEvent(d, file) ==
    Event("write", file, <<IF d[file].exists THEN "overwrite" ELSE "create">>, TRUE)
Written(d, file, content) ==
    [d EXCEPT ![file] = [exists |-> TRUE, origin |-> "generated", text |-> content]]

InitGenerate ==
    /\ cmd = "generate"
    /\ flags \in [stack : StackFlags, force : BOOLEAN]
    /\ \E present \in SUBSET (ArtifactFiles \cup MarkerFiles) : disk = DiskWith(present)
    /\ containers = <<>>
    /\ pc = "start"
    /\ trace = <<>>
    /\ detectedStack = Undefined
    /\ answers = NoAnswers
    /\ dbName = <<>>
    /\ target = Undefined
    /\ inspect = NoInspect

\* lines 465-477: the start message and the stack of the flag or of detectStack
GenerateStart ==
    /\ cmd = "generate" /\ pc = "start"
    /\ IF Truthy(flags.stack)
       THEN /\ detectedStack' = flags.stack
            /\ trace' = Append(trace, Log("start"))
            /\ pc' = "guard"
       ELSE /\ detectedStack' = detectStack(disk)
            /\ trace' = trace \o <<Log("start"), Log("auto_detected")>>
            /\ pc' = IF Truthy(detectStack(disk)) THEN "guard" ELSE "stack_prompt"
    /\ UNCHANGED <<cmd, flags, disk, containers, answers, dbName, target, inspect>>

\* lines 478-487: 'Could not auto-detect stack. Choose one:'
GenerateStackPrompt ==
    /\ cmd = "generate" /\ pc = "stack_prompt"
    /\ \E choice \in StackChoices :
        /\ detectedStack' = choice
        /\ trace' = Append(trace, Prompt("stack", <<choice>>))
    /\ pc' = "guard"
    /\ UNCHANGED <<cmd, flags, disk, containers, answers, dbName, target, inspect>>

\* lines 491-513: the existence check and, when it asks for it, 'Overwrite
\* existing files?'
GenerateGuard ==
    /\ cmd = "generate" /\ pc = "guard"
    /\ IF MustConfirm(disk["Dockerfile"].exists, disk["docker-compose.yml"].exists, flags.force)
       THEN \E overwrite \in BOOLEAN :
            IF ~overwrite
            THEN /\ trace' = trace \o <<Log("existing_files"), Prompt("overwrite", YesNo(FALSE)),
                                        Log("skipped")>>
                 /\ pc' = "returned"
            ELSE /\ trace' = trace \o <<Log("existing_files"), Prompt("overwrite", YesNo(TRUE))>>
                 /\ pc' = "customize"
       ELSE /\ trace' = trace
            /\ pc' = "customize"
    /\ UNCHANGED <<cmd, flags, disk, containers, detectedStack, answers, dbName, target, inspect>>

\* lines 516-529: the port and the entrypoint
GenerateCustomize ==
    /\ cmd = "generate" /\ pc = "customize"
    /\ \E a \in [port : PortAnswers, entrypoint : EntrypointAnswers] :
        /\ answers' = a
        /\ trace' = Append(trace, Prompt("port_entrypoint", <<a.port, a.entrypoint>>))
    /\ pc' = "write_dockerfile"
    /\ UNCHANGED <<cmd, flags, disk, containers, detectedStack, dbName, target, inspect>>

\* lines 532-537
GenerateWriteDockerfile ==
    /\ cmd = "generate" /\ pc = "write_dockerfile"
    /\ disk' = Written(disk, "Dockerfile", generateDockerfileContent(detectedStack, answers))
    /\ trace' = trace \o <<WriteEvent(disk, "Dockerfile"), Log("dockerfile_generated")>>
    /\ pc' = "write_compose"
    /\ UNCHANGED <<cmd, flags, containers, detectedStack, answers, dbName, target, inspect>>

\* lines 539-547
GenerateWriteCompose ==
    /\ cmd = "generate" /\ pc = "write_compose"
    /\ disk' = Written(disk, "docker-compose.yml", generateComposeContent(detectedStack, answers))
    /\ trace' = trace \o <<WriteEvent(disk, "docker-compose.yml"), Log("compose_generated"),
                           Log("files_ready")>>
    /\ pc' = "returned"
    /\ UNCHANGED <<cmd, flags, containers, detectedStack, answers, dbName, target, inspect>>

GenerateNext ==
    \/ GenerateStart
    \/ GenerateStackPrompt
    \/ GenerateGuard
    \/ GenerateCustomize
    \/ GenerateWriteDockerfile
    \/ GenerateWriteCompose

----------------------------------------------------------------------------
(* Generate without a guard: src/src/commands/generate.ts *)

LegacyStacks == {"node-prisma", "react", "python"}

\* lines 57-81: the node-prisma recipe, trimmed, or the placeholder of the stack
LegacyDockerfileContent(stack, a) ==
    IF stack = "react" THEN <<L(0, <<"#", "TODO:", "React-specific", "Dockerfile">>)>>
    ELSE IF stack = "python" THEN <<L(0, <<"#", "TODO:", "Python-specific", "Dockerfile">>)>>
    ELSE Trim(<<Blank,
                L(0, <<"FROM", "node:20", "AS", "builder">>),
                L(0, <<"WORKDIR", "/app">>),
                L(0, <<"COPY", "package*.json", "./">>),
                L(0, <<"RUN", "npm", "ci">>),
                L(0, <<"COPY", ".", ".">>),
                L(0, <<"RUN", "npx", "prisma", "generate">>),
                L(0, <<"RUN", "npm", "run", "build">>),
                Blank,
                L(0, <<"FROM", "node:20-slim">>),
                L(0, <<"WORKDIR", "/app">>),
                L(0, <<"COPY", "--from=builder", "/app/dist", "./dist">>),
                L(0, <<"COPY", "--from=builder", "/app/node_modules", "./node_modules">>),
                L(0, <<"COPY", "--from=builder", "/app/prisma", "./prisma">>),
                L(0, <<"ENV", "NODE_ENV=production">>),
                L(0, <<"EXPOSE", a.port>>),
                L(0, <<"CMD", "[\"node\",", "\"" \o a.entrypoint \o "\"]">>),
                L(4, <<>>)>>)

\* lines 89-98
LegacyComposeContent(a) ==
    Trim(<<Blank,
           L(0, <<"version:", "'3.8'">>),
           L(0, <<"services:">>),
           L(2, <<"app:">>),
           L(4, <<"build:", ".">>),
           L(4, <<"ports:">>),
           L(6, <<"-", "\"" \o a.port \o ":" \o a.port \o "\"">>),
           L(4, <<"environment:">>),
           L(6, <<"-", "NODE_ENV=production">>),
           L(4, <<>>)>>)

InitLegacy ==
    /\ cmd = "generate_unguarded"
    /\ flags \in [stack : LegacyStacks]
    /\ \E present \in SUBSET ArtifactFiles : disk = DiskWith(present)
    /\ containers = <<>>
    /\ pc = "start"
    /\ trace = <<>>
    /\ detectedStack = Undefined
    /\ answers = NoAnswers
    /\ dbName = <<>>
    /\ target = Undefined
    /\ inspect = NoInspect

\* lines 31-54: the two messages, then the port and the entrypoint
LegacyCustomize ==
    /\ cmd = "generate_unguarded" /\ pc = "start"
    /\ \E a \in [port : PortAnswers, entrypoint : EntrypointAnswers] :
        /\ answers' = a
        /\ trace' = trace \o <<Log("start"), Log("why"),
                               Prompt("port_entrypoint", <<a.port, a.entrypoint>>)>>
    /\ pc' = "write_dockerfile"
    /\ UNCHANGED <<cmd, flags, disk, containers, detectedStack, dbName, target, inspect>>

\* lines 57-86
LegacyWriteDockerfile ==
    /\ cmd = "generate_unguarded" /\ pc = "write_dockerfile"
    /\ disk' = Written(disk, "Dockerfile", LegacyDockerfileContent(flags.stack, answers))
    /\ trace' = trace \o <<WriteEvent(disk, "Dockerfile"), Log("dockerfile_generated")>>
    /\ pc' = "write_compose"
    /\ UNCHANGED <<cmd, flags, containers, detectedStack, answers, dbName, target, inspect>>

\* lines 89-109
LegacyWriteCompose ==
    /\ cmd = "generate_unguarded" /\ pc = "write_compose"
    /\ disk' = Written(disk, "docker-compose.yml", LegacyComposeContent(answers))
    /\ trace' = trace \o <<WriteEvent(disk, "docker-compose.yml"), Log("compose_generated"),
                           Log("files_ready"), Log("tip")>>
    /\ pc' = "returned"
    /\ UNCHANGED <<cmd, flags, containers, detectedStack, answers, dbName, target, inspect>>

LegacyNext ==
    \/ LegacyCustomize
    \/ LegacyWriteDockerfile
    \/ LegacyWriteCompose

----------------------------------------------------------------------------
Init == InitGenerate \/ InitLegacy \/ InitMigrate \/ InitTroubleshoot

Next == GenerateNext \/ LegacyNext \/ MigrateNext \/ TroubleshootNext

Spec == Init /\ [][Next]_vars

----------------------------------------------------------------------------
(* What the trace says about a run *)

\* Whether a file existed when the run began: writes are the only changes to it
ExistedAtStart(file) ==
    IF Has("write", file)
    THEN \E i \in 1..Len(trace) :
            trace[i].kind = "write" /\ trace[i].name = file /\ trace[i].text = <<"overwrite">>
    ELSE disk[file].exists

Answered(name, answer) ==
    \E i \in 1..Len(trace) :
        trace[i].kind = "prompt" /\ trace[i].name = name /\ trace[i].text = answer

\* The positions of the external processes and API calls that failed
Failed(kind, name) ==
    {i \in 1..Len(trace) : trace[i].kind = kind /\ trace[i].name = name /\ ~trace[i].ok}

\* The command lines of the dumps run so far, in order
DumpLines == SelectSeq(trace, LAMBDA e : e.kind = "exec" /\ e.name = "dump")

----------------------------------------------------------------------------
(* C1 *)

OverwriteAuthorized ==
    \/ ~ExistedAtStart("Dockerfile") /\ ~ExistedAtStart("docker-compose.yml")
    \/ flags.force
    \/ Answered("overwrite", <<"yes">>)

\* C1: in the guarded generate command both files are written if and only if
\* neither existed, or force is set, or the operator answered yes to the
\* overwrite prompt; otherwise 'skipped' is reported and nothing is written.
C1_GuardSafety ==
    cmd = "generate" =>
        /\ HasKind("write") => OverwriteAuthorized
        /\ pc = "returned" =>
            /\ OverwriteAuthorized <=>
                  (Count("write", "Dockerfile") = 1 /\ Count("write", "docker-compose.yml") = 1)
            /\ ~OverwriteAuthorized =>
                  /\ Has("log", "skipped")
                  /\ ~HasKind("write")
                  /\ \A f \in ArtifactFiles : disk[f].origin # "generated"

C1_Witness ==
    /\ cmd = "generate" /\ pc = "returned"
    /\ ~flags.force
    /\ ExistedAtStart("Dockerfile")
    /\ Answered("overwrite", <<"yes">>)
    /\ disk["Dockerfile"].origin = "generated"
    /\ disk["docker-compose.yml"].origin = "generated"

----------------------------------------------------------------------------
(* C2 *)

\* C2: once the build command of a migrate run has exited nonzero, that run
\* does nothing more: the failed build is the last thing in its trace and no
\* step of Data Sync or of the deployment follows it.
C2_BuildFailureHalts ==
    cmd = "migrate" =>
        \A i \in Failed("exec", "build") :
            /\ i = Len(trace)
            /\ pc = "threw"
            /\ ~Has("prompt", "dbName") /\ ~Has("exec", "dump")
            /\ ~Has("api", "version") /\ ~Has("exec", "up")
            /\ ~Has("log", "deploy_vps_manual")

C2_Witness ==
    /\ cmd = "migrate"
    /\ Failed("exec", "build") # {}
    /\ flags.dbType = "postgres"
    /\ pc = "threw"

----------------------------------------------------------------------------
(* C3 *)

\* C3: a migrate run whose dump command fails still reaches the deployment:
\* when it has ended, the local up command was run or the manual instructions
\* were given.
C3_DumpFailureStillDeploys ==
    (cmd = "migrate" /\ Failed("exec", "dump") # {} /\ pc \in Final) =>
        (Has("exec", "up") \/ Has("log", "deploy_vps_manual"))

----------------------------------------------------------------------------
(* C4 *)

\* C4: in migrate and troubleshoot no failure of an external process or of a
\* runtime API call leaves run() as an exception: every one of them is
\* followed by a report and the run does not end by throwing.
C4_NoUnhandledFailure ==
    cmd \in {"migrate", "troubleshoot"} =>
        /\ pc # "threw"
        /\ \A i \in 1..Len(trace) :
              (trace[i].kind \in {"exec", "api"} /\ ~trace[i].ok) =>
                  (i < Len(trace) /\ trace[i + 1].kind = "log")

----------------------------------------------------------------------------
(* C5 *)

\* C5: a migrate run that finds the Dockerfile or docker-compose.yml missing
\* reports it and returns, having asked nothing, run no command and called
\* no runtime API.
C5_MissingPrerequisiteHalts ==
    (/\ cmd = "migrate"
     /\ ~disk["Dockerfile"].exists \/ ~disk["docker-compose.yml"].exists
     /\ pc # "start") =>
        /\ pc = "returned"
        /\ trace = <<Log("start"), Log("missing_files")>>
        /\ ~HasKind("prompt") /\ ~HasKind("exec") /\ ~HasKind("api") /\ ~HasKind("write")

C5_Witness ==
    /\ cmd = "migrate"
    /\ disk["Dockerfile"].exists /\ ~disk["docker-compose.yml"].exists
    /\ flags.force
    /\ pc = "returned"
    /\ Has("log", "missing_files")

----------------------------------------------------------------------------
(* C6 *)

\* The run has passed the branch on flags.vps
DeploymentSelectorDone == Has("api", "version") /\ Failed("api", "version") = {} /\ pc # "deploy"

\* C6: a migrate run that reaches the deployment branch takes exactly one of
\* its paths: docker-compose up is run (once) if and only if vps is unset or
\* empty, the manual instructions are given otherwise, and never both.
C6_BranchExclusivity ==
    cmd = "migrate" =>
        /\ ~(Has("exec", "up") /\ Has("log", "deploy_vps_manual"))
        /\ Count("exec", "up") <= 1
        /\ ~DeploymentSelectorDone => (~Has("exec", "up") /\ ~Has("log", "deploy_vps_manual"))
        /\ DeploymentSelectorDone =>
              /\ Has("exec", "up") <=> flags.vps \in {Undefined, ""}
              /\ Has("log", "deploy_vps_manual") <=> flags.vps \notin {Undefined, ""}

C6_Witness ==
    /\ cmd = "migrate"
    /\ flags.vps = ""
    /\ pc = "returned"
    /\ Has("exec", "up")
    /\ ~Has("log", "deploy_vps_manual")

----------------------------------------------------------------------------
(* C7 *)

\* The run has reached the Data Sync step and is done with it
DataSyncDone ==
    \/ Has("log", "sync_skipped")
    \/ Has("log", "syncing") /\ pc \notin {"db_prompt", "dump"}

DataSyncUntouched ==
    /\ ~Has("prompt", "dbName")
    /\ ~Has("exec", "dump")
    /\ disk[DumpFile].origin # "dump"

\* C7: with dbType none a migrate run never asks for a database name, runs
\* no dump and writes no db_dump.sql; a run that has gone through Data Sync
\* left it untouched if and only if dbType is none, and ran exactly one dump
\* otherwise: pg_dump for postgres, mysqldump for mysql, on the name given,
\* redirected to db_dump.sql.
C7_DataSyncByDbType ==
    cmd = "migrate" =>
        /\ flags.dbType = "none" => DataSyncUntouched
        /\ DataSyncDone =>
            /\ DataSyncUntouched <=> flags.dbType = "none"
            /\ flags.dbType = "postgres" =>
                  /\ Len(DumpLines) = 1
                  /\ DumpLines[1].text = <<"pg_dump", " ">> \o dbName \o <<" ", ">", " ", "db_dump.sql">>
                  /\ disk[DumpFile].origin = "dump"
            /\ flags.dbType = "mysql" =>
                  /\ Len(DumpLines) = 1
                  /\ DumpLines[1].text = <<"mysqldump", " ">> \o dbName \o <<" ", ">", " ", "db_dump.sql">>
                  /\ disk[DumpFile].origin = "dump"

C7_Witness ==
    /\ cmd = "migrate"
    /\ flags.dbType = "mysql"
    /\ pc = "returned"
    /\ Len(DumpLines) = 1
    /\ DumpLines[1].text[1] = "mysqldump"

----------------------------------------------------------------------------
(* C8 *)

\* C8: when troubleshoot has inspected a container and ended, it has emitted
\* the not-running diagnosis if the status is not 'running' and the no-ports
\* diagnosis if the port bindings are empty or absent, whatever was answered
\* to 'View recent logs?'.
C8_DiagnosticFlagging ==
    (cmd = "troubleshoot" /\ Has("api", "inspect") /\ Failed("api", "inspect") = {} /\ pc \in Final) =>
        /\ inspect.Status # "running" => Has("log", "not_running")
        /\ (inspect.Ports.isNull \/ inspect.Ports.keys = {}) => Has("log", "no_ports")

----------------------------------------------------------------------------
(* C9 *)

\* C9: the generate command of src/src/commands/generate.ts never replaces a
\* Dockerfile or docker-compose.yml that exists (it has no force flag and
\* asks for no confirmation).
C9_UnguardedNeverOverwrites ==
    cmd = "generate_unguarded" =>
        \A i \in 1..Len(trace) :
            (trace[i].kind = "write" /\ trace[i].text = <<"overwrite">>) =>
                Answered("overwrite", <<"yes">>)

----------------------------------------------------------------------------
(* C10 *)

NodePrismaScenario ==
    /\ cmd = "generate"
    /\ detectedStack = "node-prisma"
    /\ answers = [port |-> "3000", entrypoint |-> "dist/server.js"]

\* The line of a manifest right after its 'ports:' line
PortMappings(lines) ==
    {LineText(lines[i + 1]) : i \in {j \in 1..(Len(lines) - 1) : lines[j].words = <<"ports:">>}}

ScenarioRecipe(lastLine) ==
    (NodePrismaScenario /\ disk["Dockerfile"].origin = "generated") =>
        /\ Cardinality(Stages(disk["Dockerfile"].text)) = 2
        /\ LineText(LastLine(disk["Dockerfile"].text)) = lastLine

ScenarioManifest ==
    (NodePrismaScenario /\ disk["docker-compose.yml"].origin = "generated") =>
        PortMappings(disk["docker-compose.yml"].text) = {"- \"3000:3000\""}

\* C10 as stated: the recipe generated for node-prisma, port 3000 and entrypoint
\* dist/server.js has two stages and ends in CMD ["node","dist/server.js"], and
\* the manifest maps "3000:3000".
C10_ScenarioAsStated ==
    /\ ScenarioRecipe("CMD [\"node\",\"dist/server.js\"]")
    /\ ScenarioManifest

\* C10, amended: the recipe generated for node-prisma, port 3000 and entrypoint
\* dist/server.js has two stages and ends in CMD ["node", "dist/server.js"]
\* (a space after the comma), and the manifest maps "3000:3000".
C10_Scenario ==
    /\ ScenarioRecipe("CMD [\"node\", \"dist/server.js\"]")
    /\ ScenarioManifest

C10_Witness ==
    /\ NodePrismaScenario
    /\ flags.stack = Undefined
    /\ ~ExistedAtStart("Dockerfile") /\ ~ExistedAtStart("docker-compose.yml")
    /\ pc = "returned"
    /\ disk["Dockerfile"].origin = "generated"
    /\ disk["docker-compose.yml"].origin = "generated"

----------------------------------------------------------------------------
(* C11 *)

\* The recipe generate wrote, once it has written it
Recipe == disk["Dockerfile"].text
RecipeWritten == cmd = "generate" /\ disk["Dockerfile"].origin = "generated"

\* The lines of the last stage of a recipe that copy files
RuntimeStageCopies(lines) ==
    LET last == CHOOSE i \in Stages(lines) : \A j \in Stages(lines) : j <= i
    IN  {i \in last..Len(lines) : lines[i].words # <<>> /\ lines[i].words[1] = "COPY"}

\* A recipe of two stages: a build stage named builder and a last stage that
\* copies only from it
TwoStage(lines) ==
    /\ Cardinality(Stages(lines)) = 2
    /\ \E i \in Stages(lines) : SubSeq(lines[i].words, Len(lines[i].words) - 1, Len(lines[i].words))
                                    = <<"AS", "builder">>
    /\ RuntimeStageCopies(lines) # {}
    /\ \A i \in RuntimeStageCopies(lines) : lines[i].words[2] = "--from=builder"

\* The generic placeholder recipe
GenericPlaceholder(lines) ==
    /\ Cardinality(Stages(lines)) = 1
    /\ LineText(lines[1]) = "# Default/generic Dockerfile - customize me!"
    /\ LineText(lines[2]) = "FROM alpine"
    /\ LineText(LastLine(lines)) = "CMD [\"echo\", \"Hello from generic app\"]"

\* C11 as stated: the recipe generated for node-prisma, python or react has
\* exactly two stages, the last copying only from the build stage; for any
\* other stack it is the generic placeholder.
C11_TwoStageAsStated ==
    RecipeWritten =>
        IF detectedStack \in {"node-prisma", "python", "react"}
        THEN TwoStage(Recipe)
        ELSE GenericPlaceholder(Recipe)

\* C11, amended: the recipe generated for node-prisma or react has exactly two
\* stages, the last copying only from the build stage; the recipe for python
\* has a single stage (python:3.10-slim, no build stage); for any other stack
\* it is the generic placeholder.
C11_RecipeShapes ==
    RecipeWritten =>
        IF detectedStack \in {"node-prisma", "react"}
        THEN TwoStage(Recipe)
        ELSE IF detectedStack = "python"
        THEN /\ Cardinality(Stages(Recipe)) = 1
             /\ LineText(Recipe[1]) = "FROM python:3.10-slim"
             /\ ~GenericPlaceholder(Recipe)
        ELSE GenericPlaceholder(Recipe)

C11_Witness ==
    /\ RecipeWritten
    /\ detectedStack = "python"
    /\ pc = "returned"
    /\ Cardinality(Stages(Recipe)) = 1

----------------------------------------------------------------------------
(* C12 *)

\* generate had no --stack and has run the detector
DetectorRan == cmd = "generate" /\ ~Truthy(flags.stack) /\ pc # "start"

\* What the detector returned: the stack is asked for only when it returned
\* nothing, and detectedStack holds its result otherwise
DetectorResult == IF Has("prompt", "stack") \/ pc = "stack_prompt" THEN Undefined ELSE detectedStack

\* The rules of the detector in their order: the files that must exist, the stack
MarkerRules ==
    <<[files |-> {"package.json"}, stack |-> "node-prisma"],
      [files |-> {"requirements.txt"}, stack |-> "python"],
      [files |-> {"package.json", "src/index.js"}, stack |-> "react"]>>

FirstMatch ==
    LET matching == {i \in 1..Len(MarkerRules) : \A f \in MarkerRules[i].files : disk[f].exists}
    IN  IF matching = {} THEN Undefined
        ELSE MarkerRules[CHOOSE i \in matching : \A j \in matching : i <= j].stack

\* C12: the detector returns the stack of the first of its rules, in the order
\* package.json, requirements.txt, package.json with src/index.js, whose
\* files exist, or nothing when none matches; it writes nothing.
C12_FirstMatchingRule ==
    /\ DetectorRan => DetectorResult = FirstMatch
    /\ (cmd = "generate" /\ pc \in {"start", "guard", "stack_prompt"}) =>
          /\ ~HasKind("write")
          /\ \A f \in Files : disk[f].origin \in {"none", "user"}

C12_Witness ==
    /\ DetectorRan
    /\ disk["package.json"].exists /\ disk["requirements.txt"].exists
    /\ pc = "guard"
    /\ detectedStack = "node-prisma"

----------------------------------------------------------------------------
(* C16 *)

\* C16: the detector never returns react: with package.json it returns
\* node-prisma, with src/index.js or without, and otherwise python or
\* nothing; the stack of a generate run is react only by the flag or by
\* the operator's choice.
C16_ReactNeverDetected ==
    /\ DetectorRan =>
          /\ DetectorResult \in {"node-prisma", "python", Undefined}
          /\ disk["package.json"].exists => DetectorResult = "node-prisma"
    /\ (cmd = "generate" /\ detectedStack = "react") =>
          (flags.stack = "react" \/ Answered("stack", <<"react">>))

C16_Witness ==
    /\ DetectorRan
    /\ disk["package.json"].exists /\ disk["src/index.js"].exists
    /\ ~disk["requirements.txt"].exists
    /\ detectedStack = "node-prisma"
    /\ pc = "returned"

----------------------------------------------------------------------------
(* C13 *)

\* The argument vectors of the builds run so far
BuildArgvs ==
    {ShellWords(trace[i].text) : i \in {j \in 1..Len(trace) :
        trace[j].kind = "exec" /\ trace[j].name = "build"}}

\* C13: every build command names the platforms linux/amd64 and linux/arm64
\* and carries the image reference as exactly one argument, the one after
\* -t, equal to the string given with --image.
C13_BuildCommandCarriesImage ==
    cmd = "migrate" =>
        \A argv \in BuildArgvs :
            /\ \E i \in 1..(Len(argv) - 1) :
                  argv[i] = "--platform" /\ argv[i + 1] = "linux/amd64,linux/arm64"
            /\ \E i \in 1..(Len(argv) - 1) :
                  argv[i] = "-t" /\ argv[i + 1] = AtomsText(flags.image)
            /\ Cardinality({i \in 1..Len(argv) : argv[i] = AtomsText(flags.image)}) = 1
            /\ argv = <<"docker", "buildx", "build", "--platform", "linux/amd64,linux/arm64",
                        "-t", AtomsText(flags.image), "--push", ".">>

----------------------------------------------------------------------------
(* C14 *)

\* C14: a troubleshoot run that lists no container reports it and returns
\* with no selection prompt, inspect or log query; a run that ends up with no
\* target container reports it and returns with no inspect or log query;
\* a container is inspected only once there is a target.
C14_StopsWithoutTarget ==
    cmd = "troubleshoot" =>
        /\ (Len(containers) = 0 /\ pc # "start" /\ Failed("api", "listContainers") = {}) =>
              /\ pc = "returned"
              /\ trace = <<Log("start"), Api("listContainers", TRUE), Log("no_containers")>>
              /\ ~HasKind("prompt") /\ ~Has("api", "inspect") /\ ~Has("api", "logs")
        /\ Has("log", "no_selection") =>
              /\ pc = "returned"
              /\ ~Has("api", "inspect") /\ ~Has("api", "logs")
        /\ (Has("api", "inspect") \/ Has("api", "logs") \/ pc \in {"inspect", "logs_prompt", "logs", "checks"}) =>
              /\ Truthy(target)
              /\ Len(containers) > 0
              /\ ~Has("log", "no_containers") /\ ~Has("log", "no_selection")

C14_Witness ==
    /\ cmd = "troubleshoot"
    /\ Len(containers) = 0
    /\ flags.container = "c1"
    /\ pc = "returned"
    /\ Has("log", "no_containers")

----------------------------------------------------------------------------
(* C15 *)

\* The positions in the trace of the events of a kind and a name
At(kind, name) == {i \in 1..Len(trace) : trace[i].kind = kind /\ trace[i].name = name}

BuildDecided == cmd = "migrate" /\ pc \notin {"start", "build_confirm", "build"}
                   /\ disk["Dockerfile"].exists /\ disk["docker-compose.yml"].exists

BuildDeclined == cmd = "migrate" /\ Answered("build", <<"no">>)

Deployed == Has("exec", "up") \/ Has("log", "deploy_vps_manual")

\* C15: in a migrate run with both artifacts the build command is run if and
\* only if force is set or the operator answers yes to the build prompt; a
\* no does not end the run: no build is run, Data Sync comes next, and unless
\* the dump or the runtime check fails the run goes on to a deployment.
C15_BuildOptionalDeployAnyway ==
    /\ BuildDecided =>
          /\ Has("exec", "build") <=> (flags.force \/ Answered("build", <<"yes">>))
          /\ Count("exec", "build") <= 1
    /\ BuildDeclined =>
          /\ ~Has("exec", "build")
          /\ pc = "sync" \/ Has("log", "syncing") \/ Has("log", "sync_skipped")
          /\ \A i \in At("prompt", "build") :
                i < Len(trace) => trace[i + 1] \in {Log("syncing"), Log("sync_skipped")}
          /\ (pc \in Final /\ Failed("exec", "dump") = {} /\ Failed("api", "version") = {}) =>
                (Deployed /\ (flags.dbType # "none" <=> Has("exec", "dump")))

C15_Witness ==
    /\ BuildDeclined
    /\ ~flags.force
    /\ flags.dbType = "postgres"
    /\ pc = "returned"
    /\ Has("exec", "dump")
    /\ Has("exec", "up")
    /\ ~Has("exec", "build")

----------------------------------------------------------------------------
(* C17 *)

\* C17: the runtime check of a migrate run comes after its build and its
\* dump and before either deployment branch; when the runtime is unreachable
\* the run ends there, with neither docker-compose up nor the manual
\* instructions, whatever was built or dumped before.
C17_RuntimeCheckBeforeDeploy ==
    cmd = "migrate" =>
        /\ Count("api", "version") <= 1
        /\ \A v \in At("api", "version") :
              /\ \A i \in At("exec", "build") \cup At("exec", "dump") \cup At("prompt", "dbName")
                            \cup At("log", "syncing") \cup At("log", "sync_skipped") : i < v
              /\ \A i \in At("exec", "up") \cup At("log", "deploy_vps_manual")
                            \cup At("log", "deploy_local") : v < i
        /\ Deployed => (Has("api", "version") /\ Failed("api", "version") = {})
        /\ Failed("api", "version") # {} =>
              /\ pc = "threw"
              /\ ~Deployed
              /\ \A v \in Failed("api", "version") : v = Len(trace)

C17_Witness ==
    /\ cmd = "migrate"
    /\ Failed("api", "version") # {}
    /\ flags.vps = "user@10.0.0.1"
    /\ Has("log", "build_ok")
    /\ disk[DumpFile].origin = "dump"
    /\ Has("log", "dump_ok")
    /\ pc = "threw"

=============================================================================
